---- MODULE Spec2Model ----
(***************************************************************************)
(* Model of the AI-provider abstraction of the maintenance voice-note      *)
(* parser: the retry/fallback engine (backend/core/base.py), the two       *)
(* provider adapters (claude_provider.py, gemini_provider.py), the         *)
(* response processor and the output validator (validation.py).            *)
(***************************************************************************)
EXTENDS Integers, Sequences, FiniteSets, TLC

(***************************************************************************)
(* Bounds of the model.                                                    *)
(***************************************************************************)
\* largest max_retries a direct caller of _execute_with_retry passes
MaxRetriesBound == 4
\* largest base_wait_time (in seconds) a direct caller passes
MaxBaseWait == 2
\* calls of _switch_to_next_model counted per provider instance
MaxSwitchCalls == 3
\* longest text given to _extract_json_from_response on its own
MaxTextLen == 7
\* most items in the data given to validate_output on its own
MaxItems == 2

(***************************************************************************)
(* Exception messages.  A message is the set of vocabulary phrases that    *)
(* occur in str(error); `term in error_msg` is substring search, modelled  *)
(* by Occurs over the phrases of the lower-cased message.                  *)
(***************************************************************************)
Words ==
    { "rate_limit",
      "unauthorized", "Unauthorized",
      "safety",
      "token", "limit",
      "model", "Model XYZ", "not found",
      "timeout",
      "server error" }

\* str.lower() on the phrases of the vocabulary
Lower(w) ==
    CASE w = "Unauthorized" -> "unauthorized"
      [] w = "Model XYZ"    -> "model xyz"
      [] OTHER              -> w

\* `term in phrase` for a lower-cased phrase: the phrase itself, or a
\* phrase of which the term is a proper substring
Occurs(term, phrase) ==
    \/ term = phrase
    \/ term = "limit" /\ phrase = "rate_limit"
    \/ term = "model" /\ phrase = "model xyz"

\* a message holds one or two phrases of the vocabulary
Messages == { {a, b} : a, b \in Words }

\* error_msg = str(error).lower()
LowerMsg(m) == { Lower(w) : w \in m }

\* any(term in error_msg for term in terms)
AnyTermIn(terms, error_msg) == \E t \in terms : \E p \in error_msg : Occurs(t, p)

\* error_patterns with the authentication entry moved behind content_policy
error_patterns_AuthLater ==
    << [type |-> "rate_limit",        terms |-> {"rate_limit", "quota", "billing", "payment"}],
       [type |-> "content_policy",    terms |-> {"content_policy", "harmful", "safety", "violation"}],
       [type |-> "authentication",    terms |-> {"authentication", "api_key", "unauthorized", "forbidden"}],
       [type |-> "token_limit",       terms |-> {"token"}],
       [type |-> "model_unavailable", terms |-> {"model"}],
       [type |-> "timeout",           terms |-> {"timeout", "deadline", "timed out"}] >>

\* error_patterns, in dict (insertion) order
error_patterns ==
    << [type |-> "rate_limit",        terms |-> {"rate_limit", "quota", "billing", "payment"}],
       [type |-> "authentication",    terms |-> {"authentication", "api_key", "unauthorized", "forbidden"}],
       [type |-> "content_policy",    terms |-> {"content_policy", "harmful", "safety", "violation"}],
       [type |-> "token_limit",       terms |-> {"token"}],
       [type |-> "model_unavailable", terms |-> {"model"}],
       [type |-> "timeout",           terms |-> {"timeout", "deadline", "timed out"}] >>

\* a loop body without the two special-case `continue`s
PatternMatches_TermsOnly(i, error_msg) ==
    AnyTermIn(error_patterns[i].terms, error_msg)

\* the loop body's test: the terms match and the special-case `continue`s do not fire
PatternMatches(i, error_msg) ==
    /\ AnyTermIn(error_patterns[i].terms, error_msg)
    /\ ~ (error_patterns[i].type = "token_limit"
            /\ ~ AnyTermIn({"limit", "exceeded"}, error_msg))
    /\ ~ (error_patterns[i].type = "model_unavailable"
            /\ ~ AnyTermIn({"not found", "unavailable", "not available"}, error_msg))

\* should_retry of the pattern table
PatternShouldRetry(type, attempt, max_retries) ==
    CASE type = "rate_limit"        -> TRUE
      [] type = "authentication"    -> FALSE
      [] type = "content_policy"    -> FALSE
      [] type = "token_limit"       -> FALSE
      [] type = "model_unavailable" -> TRUE
      [] type = "timeout"           -> attempt < max_retries

\* _handle_api_error: (should_retry, error_type)
HandleApiError(m, attempt, max_retries) ==
    LET error_msg == LowerMsg(m)
        hits == { i \in 1..Len(error_patterns) : PatternMatches(i, error_msg) }
    IN  IF hits # {}
        THEN LET first == CHOOSE i \in hits : \A j \in hits : i <= j
             IN  [should_retry |-> PatternShouldRetry(error_patterns[first].type, attempt, max_retries),
                  error_type   |-> error_patterns[first].type]
        ELSE [should_retry |-> attempt < max_retries, error_type |-> "api_error"]

RECURSIVE Pow2(_)
Pow2(n) == IF n <= 0 THEN 1 ELSE 2 * Pow2(n - 1)

\* _get_retry_delay with the exponent off by one
GetRetryDelay_ExponentAttempt(attempt, base_wait_time) == base_wait_time * Pow2(attempt)

\* _get_retry_delay
GetRetryDelay(attempt, base_wait_time) == base_wait_time * Pow2(attempt - 1)

\* a fatal list without token_limit
FatalTypes_NoTokenLimit == {"authentication", "content_policy"}

\* the error types of the `if error_type in [...]` test
FatalTypes == {"authentication", "content_policy", "token_limit"}

\* error_messages of _execute_with_retry
FatalMessage(error_type) ==
    CASE error_type = "authentication" -> "Invalid or expired {provider_name} API key"
      [] error_type = "content_policy" -> "Prompt violates {provider_name}'s content policy"
      [] error_type = "token_limit"    -> "Prompt too long - reduce input text length"

ExhaustedMessage == "Failed to complete {operation} after {max_retries} attempts"
UnexpectedMessage == "Unexpected error in {operation}"

(***************************************************************************)
(* Reply texts.  A text is a sequence of tokens: the two brace characters, *)
(* the JSON punctuation, a key with its colon, the scalar literals, and    *)
(* prose (any run of characters that is neither a brace nor JSON).         *)
(***************************************************************************)
Tok(t, k) == [t |-> t, k |-> k]
LBrace == Tok("{", "")
RBrace == Tok("}", "")
LBrack == Tok("[", "")
RBrack == Tok("]", "")
Comma  == Tok(",", "")
Key(k) == Tok("key", k)
\* a string literal with its content
Str(c) == Tok("str", c)
StrLit == Str("text")
NullLit == Tok("null", "")
NumLit == Tok("num", "")
Prose  == Tok("prose", "")

\* a scan that accepts no nested pair of braces
RECURSIVE ScanFrom_NoNesting(_, _, _)
ScanFrom_NoNesting(text, j, depth) ==
    IF j > Len(text) THEN 0
    ELSE IF text[j] = [t |-> "{", k |-> ""] THEN 0
    ELSE IF text[j] = [t |-> "}", k |-> ""] THEN j
    ELSE ScanFrom_NoNesting(text, j + 1, depth)

(***************************************************************************)
(* _extract_json_from_response: re.search of the pattern                   *)
(*   open brace, non-braces, any number of (open brace, non-braces,        *)
(*   close brace, non-braces), close brace.                                *)
(* The pattern's character classes are disjoint from its literals, so a    *)
(* match attempt from an opening brace is a scan with one level of         *)
(* nesting: depth 0 after the opening brace, depth 1 inside a nested pair. *)
(* ScanFrom returns the position of the closing brace, or 0 on failure.    *)
(***************************************************************************)
RECURSIVE ScanFrom(_, _, _)
ScanFrom(text, j, depth) ==
    IF j > Len(text) THEN 0
    ELSE IF text[j] = LBrace
         THEN IF depth = 0 THEN ScanFrom(text, j + 1, 1) ELSE 0
    ELSE IF text[j] = RBrace
         THEN IF depth = 1 THEN ScanFrom(text, j + 1, 0) ELSE j
    ELSE ScanFrom(text, j + 1, depth)

\* end of the match that starts at i, or 0
MatchAt(text, i) == IF text[i] = LBrace THEN ScanFrom(text, i + 1, 0) ELSE 0

\* re.search: the leftmost position where the pattern matches
MatchStarts(text) == { i \in 1..Len(text) : MatchAt(text, i) # 0 }

\* [found, text]: json_match.group(), or no match
ExtractJsonFromResponse(text) ==
    IF MatchStarts(text) = {}
    THEN [found |-> FALSE, text |-> << >>]
    ELSE LET i == CHOOSE a \in MatchStarts(text) : \A b \in MatchStarts(text) : a <= b
         IN  [found |-> TRUE, text |-> SubSeq(text, i, MatchAt(text, i))]

(***************************************************************************)
(* json.loads on a token sequence.  Values are records                     *)
(*   [t, s, fields, items]: t in str/null/num/obj/arr, s the content of a  *)
(* string, fields the dict of an object (a function on its keys, a         *)
(* repeated key keeping the last value), items the elements of an array.   *)
(***************************************************************************)
JScalar(t, c) == [t |-> t, s |-> c, fields |-> << >>, items |-> << >>]
JObj(f)    == [t |-> "obj", s |-> "", fields |-> f, items |-> << >>]
JArr(xs)   == [t |-> "arr", s |-> "", fields |-> << >>, items |-> xs]
NoValue    == JScalar("none", "")

EmptyDict == [k \in {} |-> NoValue]
DictPut(f, k, v) == [x \in (DOMAIN f) \cup {k} |-> IF x = k THEN v ELSE f[x]]

ParseFail == [ok |-> FALSE, val |-> NoValue, rest |-> << >>]
ParseOk(v, rest) == [ok |-> TRUE, val |-> v, rest |-> rest]

RECURSIVE ParseValue(_), ParseMembers(_, _), ParseElems(_, _)
ParseValue(toks) ==
    IF toks = << >> THEN ParseFail
    ELSE LET h == Head(toks) IN
         IF h.t \in {"str", "null", "num"} THEN ParseOk(JScalar(h.t, h.k), Tail(toks))
         ELSE IF h = LBrace
              THEN IF Len(toks) >= 2 /\ toks[2] = RBrace
                   THEN ParseOk(JObj(EmptyDict), Tail(Tail(toks)))
                   ELSE ParseMembers(Tail(toks), EmptyDict)
         ELSE IF h = LBrack
              THEN IF Len(toks) >= 2 /\ toks[2] = RBrack
                   THEN ParseOk(JArr(<< >>), Tail(Tail(toks)))
                   ELSE ParseElems(Tail(toks), << >>)
         ELSE ParseFail

\* key value ( , key value )* }
ParseMembers(toks, f) ==
    IF toks = << >> \/ Head(toks).t # "key" THEN ParseFail
    ELSE LET r == ParseValue(Tail(toks)) IN
         IF ~ r.ok \/ r.rest = << >> THEN ParseFail
         ELSE LET g == DictPut(f, Head(toks).k, r.val) IN
              IF Head(r.rest) = RBrace THEN ParseOk(JObj(g), Tail(r.rest))
              ELSE IF Head(r.rest) = Comma THEN ParseMembers(Tail(r.rest), g)
              ELSE ParseFail

\* value ( , value )* ]
ParseElems(toks, xs) ==
    LET r == ParseValue(toks) IN
    IF ~ r.ok \/ r.rest = << >> THEN ParseFail
    ELSE IF Head(r.rest) = RBrack THEN ParseOk(JArr(Append(xs, r.val)), Tail(r.rest))
    ELSE IF Head(r.rest) = Comma THEN ParseElems(Tail(r.rest), Append(xs, r.val))
    ELSE ParseFail

\* json.loads: the whole text must be one value
JsonLoads(toks) ==
    LET r == ParseValue(toks)
    IN  IF r.ok /\ r.rest = << >> THEN [ok |-> TRUE, val |-> r.val]
        ELSE [ok |-> FALSE, val |-> NoValue]

(***************************************************************************)
(* validation.py: the pydantic models.  Unknown keys are ignored.          *)
(***************************************************************************)
Categories == << "work_requests", "work_orders", "inspection_tasks", "general_tasks" >>
CategorySet == { Categories[i] : i \in 1..Len(Categories) }

RequiredFields == {"title", "description", "status"}

\* Optional[str] fields of WorkRequest, WorkOrder, InspectionTask, GeneralTask
OptionalFields(cat) ==
    CASE cat = "work_requests"    -> {"asset_id", "work_type_id", "assigned_to"}
      [] cat = "work_orders"      -> {"asset_id", "work_type_id", "assigned_to", "comment", "user_query"}
      [] cat = "inspection_tasks" -> {"asset_id", "assigned_to"}
      [] cat = "general_tasks"    -> {"assigned_to"}

HasKey(v, k) == v.t = "obj" /\ k \in DOMAIN v.fields

\* a field declared `str = Field(...)`
ValidStr(v) == v.t = "str"
\* a field declared Optional[str]
ValidOptStr(v) == v.t \in {"str", "null"}
\* a field declared Optional[float]
ValidOptFloat(v) == v.t \in {"num", "null"}

\* an item model that does not require status
ValidItem_StatusOptional(cat, v) ==
    /\ v.t = "obj"
    /\ \A k \in {"title", "description"} : HasKey(v, k) /\ ValidStr(v.fields[k])
    /\ HasKey(v, "status") => ValidOptStr(v.fields["status"])
    /\ \A k \in OptionalFields(cat) : HasKey(v, k) => ValidOptStr(v.fields[k])

\* WorkRequest / WorkOrder / InspectionTask / GeneralTask
ValidItem(cat, v) ==
    /\ v.t = "obj"
    /\ \A k \in RequiredFields : HasKey(v, k) /\ ValidStr(v.fields[k])
    /\ \A k \in OptionalFields(cat) : HasKey(v, k) => ValidOptStr(v.fields[k])

\* WorkItemTriagingOutput(**data)
ValidWorkItemTriagingOutput(data) ==
    /\ data.t = "obj"
    /\ \A c \in CategorySet :
          HasKey(data, c) =>
             /\ data.fields[c].t = "arr"
             /\ \A i \in 1..Len(data.fields[c].items) : ValidItem(c, data.fields[c].items[i])

\* ClosingCommentOutput(**data)
ValidClosingCommentOutput(data) ==
    /\ data.t = "obj"
    /\ HasKey(data, "closing_comment") /\ ValidStr(data.fields["closing_comment"])
    /\ HasKey(data, "actual_downtime_hours") => ValidOptFloat(data.fields["actual_downtime_hours"])

\* validate_work_triaging_output: True, or False when the constructor raises
validate_work_triaging_output(data) == ValidWorkItemTriagingOutput(data)

\* validate_closing_comment_output
validate_closing_comment_output(data) == ValidClosingCommentOutput(data)

\* validate_output
validate_output(data, output_type) ==
    IF output_type = "work_triaging" THEN validate_work_triaging_output(data)
    ELSE IF output_type = "closing_comment" THEN validate_closing_comment_output(data)
    ELSE FALSE

\* _validate_json_structure
ValidateJsonStructure(data) ==
    validate_output(data, IF HasKey(data, "closing_comment") THEN "closing_comment" ELSE "work_triaging")

(***************************************************************************)
(* Provider adapters.                                                      *)
(***************************************************************************)
Providers == {"Claude", "Gemini"}

ClaudeModels == << "claude-3-5-sonnet-20241022", "claude-3-5-haiku-20241022", "claude-3-opus-20240229" >>
GeminiModels == << "gemini-1.5-pro", "gemini-1.5-flash", "gemini-1.0-pro" >>

AvailableModels(p) == IF p = "Claude" THEN ClaudeModels ELSE GeminiModels

\* model names a configuration may hold: the known ones and an unknown one
ConfigModels(p) == { AvailableModels(p)[i] : i \in 1..Len(AvailableModels(p)) } \cup {"unknown-model"}

\* list.index(model), 0-based; 0 when the model is not in the list
StartIndex(p, model) ==
    IF \E i \in 1..Len(AvailableModels(p)) : AvailableModels(p)[i] = model
    THEN (CHOOSE i \in 1..Len(AvailableModels(p)) : AvailableModels(p)[i] = model) - 1
    ELSE 0

(***************************************************************************)
(* Texts a vendor may reply with, built from JSON fragments.               *)
(***************************************************************************)
RECURSIVE JoinComma(_)
JoinComma(parts) ==
    IF parts = << >> THEN << >>
    ELSE IF Len(parts) = 1 THEN parts[1]
    ELSE parts[1] \o << Comma >> \o JoinComma(Tail(parts))

Member(k, valueText) == << Key(k) >> \o valueText
ObjText(members) == << LBrace >> \o JoinComma(members) \o << RBrace >>
ArrText(elems) == << LBrack >> \o JoinComma(elems) \o << RBrack >>

FullItem == << Member("title", << StrLit >>), Member("description", << StrLit >>),
               Member("status", << StrLit >>) >>

ItemShapes == {"full", "no_status", "null_title", "nested", "bad_asset"}

ItemText(shape) ==
    CASE shape = "full"       -> ObjText(FullItem)
      [] shape = "no_status"  -> ObjText(SubSeq(FullItem, 1, 2))
      [] shape = "null_title" -> ObjText(<< Member("title", << NullLit >>) >> \o SubSeq(FullItem, 2, 3))
      [] shape = "nested"     -> ObjText(Append(FullItem, Member("meta", ObjText(<< Member("note", << StrLit >>) >>))))
      [] shape = "bad_asset"  -> ObjText(Append(FullItem, Member("asset_id", ArrText(<< >>))))

\* the members of a classification reply: the categories not in `absent`, in
\* order, those in `nonEmpty` holding one item of the given shape
RECURSIVE CategoryMembers(_, _, _, _)
CategoryMembers(i, nonEmpty, absent, shape) ==
    IF i > Len(Categories) THEN << >>
    ELSE (IF Categories[i] \in absent THEN << >>
          ELSE << Member(Categories[i],
                         ArrText(IF Categories[i] \in nonEmpty THEN << ItemText(shape) >> ELSE << >>)) >>)
         \o CategoryMembers(i + 1, nonEmpty, absent, shape)

TriageText(nonEmpty, absent, shape, withComment) ==
    ObjText(CategoryMembers(1, nonEmpty, absent, shape)
            \o (IF withComment THEN << Member("closing_comment", << StrLit >>) >> ELSE << >>))

ScalarText(kind) ==
    CASE kind = "str"  -> << StrLit >>
      [] kind = "null" -> << NullLit >>
      [] kind = "num"  -> << NumLit >>

ClosingText(comment, downtime) ==
    ObjText((IF comment = "absent" THEN << >> ELSE << Member("closing_comment", ScalarText(comment)) >>)
            \o (IF downtime = "absent" THEN << >>
                ELSE << Member("actual_downtime_hours", ScalarText(downtime)) >>))

TriageReplies ==
    { TriageText(ne, {"general_tasks"}, sh, cc) :
        ne \in { {}, {"work_requests"}, {"work_requests", "inspection_tasks"} },
        sh \in ItemShapes,
        cc \in BOOLEAN }

ClosingReplies ==
    { ClosingText(c, d) : c \in {"absent", "str", "null"}, d \in {"absent", "num", "null", "str"} }

MalformedReplies ==
    { << >>,
      << Prose >>,
      << LBrace >>,
      << LBrace, Prose, RBrace >>,
      << LBrace, Key("title"), StrLit, Comma, RBrace >>,
      << LBrace, Key("a"), LBrace, Key("b"), LBrace, Key("c"), NumLit, RBrace, RBrace, RBrace >> }

ReplyBodies == TriageReplies \cup ClosingReplies \cup MalformedReplies

\* a reply is a body, alone or between prose
Replies == ReplyBodies \cup { << Prose >> \o b \o << Prose >> : b \in ReplyBodies }

\* what the callable returns: a vendor reply for the two adapter operations,
\* any text for a direct caller of _execute_with_retry
CallableTexts(kind) == IF kind = "execute" THEN MalformedReplies ELSE Replies

(***************************************************************************)
(* Prompt template store: what self._prompts holds for each prompt type.   *)
(***************************************************************************)
PromptTypes == {"work_triaging", "closing_comment"}

\* "ok", or the way get_prompt fails for the entry
PromptStores ==
    { [t \in PromptTypes |-> "ok"],
      [t \in PromptTypes |-> IF t = "closing_comment" THEN "missing" ELSE "template_error"] }

\* get_prompt: the exception it raises, or "" when it returns the prompt
GetPromptError(store, prompt_type) ==
    CASE store[prompt_type] = "ok"               -> ""
      [] store[prompt_type] = "missing"          -> "KeyError: Prompt type '{prompt_type}' not found"
      [] store[prompt_type] = "template_error"   -> "ValueError: Prompt template error"
      [] store[prompt_type] = "formatting_error" -> "ValueError: Prompt formatting error"

\* defaults of _execute_with_retry, used by _make_api_call
DefaultMaxRetries == 3
DefaultBaseWait == 1

\* the soft default of generate_closing_comment
DefaultClosingComment ==
    JObj(DictPut(DictPut(EmptyDict, "closing_comment", JScalar("str", "Error generating closing comment")),
                 "actual_downtime_hours", JScalar("null", "")))

(***************************************************************************)
(* _process_ai_response: [ok, val, err]                                    *)
(***************************************************************************)
\* _process_ai_response validating whatever validate_structure says
ProcessAiResponse_AlwaysValidate(text, validate_structure) ==
    LET ex == ExtractJsonFromResponse(text) IN
    IF ~ ex.found
    THEN [ok |-> FALSE, val |-> NoValue, err |-> "ValueError: No JSON object found in response"]
    ELSE LET parsed == JsonLoads(ex.text) IN
         IF ~ parsed.ok
         THEN [ok |-> FALSE, val |-> NoValue, err |-> "JSONDecodeError"]
         ELSE IF ~ ValidateJsonStructure(parsed.val)
         THEN [ok |-> FALSE, val |-> NoValue, err |-> "ValueError: Invalid JSON structure in response"]
         ELSE [ok |-> TRUE, val |-> parsed.val, err |-> ""]

ProcessAiResponse(text, validate_structure) ==
    LET ex == ExtractJsonFromResponse(text) IN
    IF ~ ex.found
    THEN [ok |-> FALSE, val |-> NoValue, err |-> "ValueError: No JSON object found in response"]
    ELSE LET parsed == JsonLoads(ex.text) IN
         IF ~ parsed.ok
         THEN [ok |-> FALSE, val |-> NoValue, err |-> "JSONDecodeError"]
         ELSE IF validate_structure /\ ~ ValidateJsonStructure(parsed.val)
         THEN [ok |-> FALSE, val |-> NoValue, err |-> "ValueError: Invalid JSON structure in response"]
         ELSE [ok |-> TRUE, val |-> parsed.val, err |-> ""]

VARIABLES
    provider,             \* class of the adapter instance
    primary_model,        \* self.primary_model
    prompts,              \* self._prompts
    current_model_index,  \* self.current_model_index (0-based)
    model_instance,       \* Gemini: model name bound to self.model_instance
    pc,                   \* position of the running operation
    op,                   \* the running operation and its arguments
    attempt,              \* loop variable of _execute_with_retry
    lastError,            \* message of the exception being handled
    response,             \* text returned by the callable
    trace,                \* events since the previous call of the callable, in order
    calls,                \* invocations of the callable in the running operation
    sleeps,               \* time.sleep calls in the running operation
    onlyGeneric,          \* every failure so far was classified api_error
    outcome,              \* "none", "returned" or "raised"
    error,                \* message of the raised exception
    result,               \* value returned by the operation
    switchCalls,          \* calls of _switch_to_next_model on this instance
    lastSwitch,           \* result of the last one
    initFailed,           \* some _initialize_model has failed during a switch
    logLines,             \* log lines emitted by the last step of the running operation
    threads,              \* locals of each thread inside _switch_to_next_model
    fnInput,              \* argument of a function applied on its own
    fnOutput              \* its result

vars == << provider, primary_model, prompts, current_model_index, model_instance, pc, op,
           attempt, lastError, response, trace, calls, sleeps, onlyGeneric,
           outcome, error, result,
           switchCalls, lastSwitch, initFailed, logLines, threads, fnInput, fnOutput >>

adapterVars == << provider, primary_model, prompts, threads, fnInput, fnOutput >>
switchVars == << current_model_index, model_instance, switchCalls, lastSwitch, initFailed >>

\* the threads that may share one adapter, and the locals of a thread that
\* is not inside _switch_to_next_model
Threads == {"t1", "t2"}
IdleThread == [pc |-> "idle", i |-> 0, ret |-> "none"]

NoOp == [kind |-> "none", max_retries |-> 0, base_wait_time |-> 0]
NoMsg == {}

Event(e, cat, n) == [e |-> e, cat |-> cat, n |-> n]

\* the model the next vendor call uses
ModelInUse ==
    IF provider = "Claude"
    THEN AvailableModels(provider)[current_model_index + 1]
    ELSE model_instance

NoCall == [state |-> "none", ok |-> FALSE, text |-> << >>]
Pending == [state |-> "pending", ok |-> FALSE, text |-> << >>]
Returned(ok, text) == [state |-> "returned", ok |-> ok, text |-> text]

\* the state after ClaudeProvider.__init__ / GeminiProvider.__init__
Init ==
    /\ fnInput = << >>
    /\ fnOutput = NoCall
    /\ provider \in Providers
    /\ primary_model \in ConfigModels(provider)
    /\ prompts \in PromptStores
    /\ current_model_index = StartIndex(provider, primary_model)
    /\ model_instance = IF provider = "Gemini"
                        THEN AvailableModels(provider)[StartIndex(provider, primary_model) + 1]
                        ELSE "none"
    /\ pc = "idle"
    /\ op = NoOp
    /\ attempt = 0
    /\ lastError = NoMsg
    /\ response = << >>
    /\ trace = << >>
    /\ calls = 0
    /\ sleeps = 0
    /\ onlyGeneric = TRUE
    /\ outcome = "none"
    /\ error = ""
    /\ result = NoValue
    /\ switchCalls = 0
    /\ lastSwitch = FALSE
    /\ initFailed = FALSE
    /\ logLines = 0
    /\ threads = [t \in Threads |-> IdleThread]

(***************************************************************************)
(* _switch_to_next_model.  okSet is the set of (0-based) list positions    *)
(* whose client initialization succeeds; for Claude there is no client to  *)
(* rebuild.  The loop visits i = 0..L-1 and takes every i above the        *)
(* current index; Gemini returns at the first one that initializes and     *)
(* otherwise keeps walking, leaving the index at the last one visited.     *)
(***************************************************************************)
\* a switch that advances the index but keeps the client of the old model
RECURSIVE GeminiSwitchLoop_StaleInstance(_, _, _, _, _)
GeminiSwitchLoop_StaleInstance(i, idx, inst, failed, okSet) ==
    IF i >= Len(GeminiModels)
    THEN [ok |-> FALSE, index |-> idx, instance |-> inst, failed |-> failed, tried |-> << >>]
    ELSE IF i > idx
         THEN IF i \in okSet
              THEN [ok |-> TRUE, index |-> i, instance |-> inst, failed |-> failed, tried |-> << i >>]
              ELSE LET r == GeminiSwitchLoop_StaleInstance(i + 1, i, inst, TRUE, okSet)
                   IN  [r EXCEPT !.tried = << i >> \o r.tried]
         ELSE GeminiSwitchLoop_StaleInstance(i + 1, idx, inst, failed, okSet)

\* a switch that gives up at the first candidate whose initialization fails
GeminiSwitchLoop_GiveUp(i, idx, inst, failed, okSet) ==
    IF idx + 1 >= Len(GeminiModels)
    THEN [ok |-> FALSE, index |-> idx, instance |-> inst, failed |-> failed, tried |-> << >>]
    ELSE IF (idx + 1) \in okSet
         THEN [ok |-> TRUE, index |-> idx + 1, instance |-> GeminiModels[idx + 2],
               failed |-> failed, tried |-> << idx + 1 >>]
         ELSE [ok |-> FALSE, index |-> idx + 1, instance |-> inst, failed |-> TRUE,
               tried |-> << idx + 1 >>]

\* GeminiProvider._switch_to_next_model; tried lists the positions on which
\* _initialize_model was called, in order
RECURSIVE GeminiSwitchLoop(_, _, _, _, _)
GeminiSwitchLoop(i, idx, inst, failed, okSet) ==
    IF i >= Len(GeminiModels)
    THEN [ok |-> FALSE, index |-> idx, instance |-> inst, failed |-> failed, tried |-> << >>]
    ELSE IF i > idx
         THEN IF i \in okSet
              THEN [ok |-> TRUE, index |-> i, instance |-> GeminiModels[i + 1], failed |-> failed,
                    tried |-> << i >>]
              ELSE LET r == GeminiSwitchLoop(i + 1, i, inst, TRUE, okSet)
                   IN  [r EXCEPT !.tried = << i >> \o r.tried]
         ELSE GeminiSwitchLoop(i + 1, idx, inst, failed, okSet)

\* a switch that wraps around to the start of the list
ClaudeSwitchLoop_Wrap(i, idx) ==
    [ok |-> TRUE, index |-> (idx + 1) % Len(ClaudeModels), instance |-> "none", failed |-> FALSE,
     tried |-> << >>]

\* ClaudeProvider._switch_to_next_model
RECURSIVE ClaudeSwitchLoop(_, _)
ClaudeSwitchLoop(i, idx) ==
    IF i >= Len(ClaudeModels)
    THEN [ok |-> FALSE, index |-> idx, instance |-> "none", failed |-> FALSE, tried |-> << >>]
    ELSE IF i > idx
         THEN [ok |-> TRUE, index |-> i, instance |-> "none", failed |-> FALSE, tried |-> << >>]
         ELSE ClaudeSwitchLoop(i + 1, idx)

SwitchToNextModel(p, idx, inst, okSet) ==
    IF p = "Claude"
    THEN ClaudeSwitchLoop(0, idx)
    ELSE GeminiSwitchLoop(0, idx, inst, FALSE, okSet)

\* the initialization outcomes the environment may produce during one switch
InitOutcomes(p) ==
    IF p = "Claude"
    THEN { 0..(Len(ClaudeModels) - 1) }
    ELSE SUBSET (0..(Len(GeminiModels) - 1))

\* the state change of one call of _switch_to_next_model
ApplySwitch(sw) ==
    /\ current_model_index' = sw.index
    /\ model_instance' = sw.instance
    /\ switchCalls' = switchCalls + 1
    /\ lastSwitch' = sw.ok
    /\ initFailed' = (initFailed \/ sw.failed)

\* a caller invokes _switch_to_next_model directly
SwitchDirect ==
    /\ pc = "idle"
    /\ switchCalls < MaxSwitchCalls
    /\ \E okSet \in InitOutcomes(provider) :
          ApplySwitch(SwitchToNextModel(provider, current_model_index, model_instance, okSet))
    /\ UNCHANGED << adapterVars, pc, op, attempt, lastError, response, trace,
                    calls, sleeps, onlyGeneric, outcome, error, result, logLines >>

(***************************************************************************)
(* _execute_with_retry, one action per step of the loop.                   *)
(***************************************************************************)
\* the log lines of one call of _switch_to_next_model: Claude logs the switch
\* or the warning; Gemini logs each switch, each initialization (one line on
\* success, one in _initialize_model and one in the loop on failure) and the
\* warning when the list is exhausted
SwitchLogLines(p, sw) ==
    IF p = "Claude" THEN 1
    ELSE IF sw.ok THEN 3 * (Len(sw.tried) - 1) + 2
    ELSE 3 * Len(sw.tried) + 1

\* callers whose except clause logs nothing
CallerLogLines_Silent(kind) == 0

\* the except clause of analyze_work_intent and generate_closing_comment
\* logs the exception; a direct caller of _execute_with_retry has none
CallerLogLines(kind) == IF kind = "execute" THEN 0 ELSE 1

\* entering the for loop with the given arguments
EnterLoop(kind, mr, bw) ==
    /\ op' = [kind |-> kind, max_retries |-> mr, base_wait_time |-> bw]
    /\ IF mr >= 1
       THEN /\ attempt' = 1
            /\ pc' = "call"
            /\ outcome' = "none"
            /\ error' = ""
       ELSE \* range(1, max_retries + 1) is empty: the statement after the loop
            /\ attempt' = 0
            /\ pc' = "done"
            /\ outcome' = "raised"
            /\ error' = UnexpectedMessage

\* a caller invokes _execute_with_retry(operation, api_call_func, max_retries, base_wait_time)
StartExecute ==
    /\ pc = "idle"
    /\ \E mr \in 0..MaxRetriesBound, bw \in {1, MaxBaseWait} : EnterLoop("execute", mr, bw)
    /\ logLines' = 0
    /\ UNCHANGED << adapterVars, switchVars, lastError, response, trace,
                    calls, sleeps, onlyGeneric, result >>

\* analyze_work_intent / generate_closing_comment up to the first vendor call:
\* get_prompt, outside the try block, then _make_api_call
StartOperation ==
    /\ pc = "idle"
    /\ \E kind \in {"analyze", "closing"} :
          LET perr == GetPromptError(prompts, IF kind = "analyze" THEN "work_triaging"
                                                                 ELSE "closing_comment")
          IN  IF perr = ""
              THEN /\ EnterLoop(kind, DefaultMaxRetries, DefaultBaseWait)
                   /\ logLines' = 0
              ELSE \* get_prompt logs the error before it raises
                   /\ logLines' = 1
                   /\ op' = [kind |-> kind, max_retries |-> DefaultMaxRetries,
                             base_wait_time |-> DefaultBaseWait]
                   /\ attempt' = 0
                   /\ pc' = "done"
                   /\ outcome' = "raised"
                   /\ error' = perr
    /\ UNCHANGED << adapterVars, switchVars, lastError, response, trace,
                    calls, sleeps, onlyGeneric, result >>

\* a loop that takes the next attempt although the call returned
CallReturns_KeepLooping ==
    /\ pc = "call"
    /\ \E text \in CallableTexts(op.kind) : response' = text
    /\ trace' = Append(trace, Event("call", ModelInUse, current_model_index))
    /\ calls' = calls + 1
    /\ logLines' = 0
    /\ IF attempt < op.max_retries
       THEN /\ attempt' = attempt + 1
            /\ pc' = "call"
            /\ UNCHANGED outcome
       ELSE /\ pc' = IF op.kind = "execute" THEN "done" ELSE "process"
            /\ outcome' = IF op.kind = "execute" THEN "returned" ELSE outcome
            /\ UNCHANGED attempt
    /\ UNCHANGED << adapterVars, switchVars, op, lastError, sleeps, onlyGeneric,
                    error, result >>

\* api_call_func() returns text: _execute_with_retry returns it
CallReturns ==
    /\ pc = "call"
    /\ \E text \in CallableTexts(op.kind) :
          \* make_gemini_call raises on an empty response.text instead of returning it
          /\ (provider = "Gemini" /\ op.kind # "execute") => text # << >>
          /\ response' = text
    /\ trace' = Append(trace, Event("call", ModelInUse, current_model_index))
    /\ calls' = calls + 1
    /\ logLines' = 0
    /\ IF op.kind = "execute"
       THEN /\ pc' = "done"
            /\ outcome' = "returned"
       ELSE /\ pc' = "process"
            /\ UNCHANGED outcome
    /\ UNCHANGED << adapterVars, switchVars, op, attempt, lastError, sleeps, onlyGeneric,
                    error, result >>

\* api_call_func() raises an exception with message m
CallRaises ==
    /\ pc = "call"
    /\ \E m \in Messages : lastError' = m
    /\ trace' = Append(trace, Event("call", ModelInUse, current_model_index))
    /\ calls' = calls + 1
    /\ logLines' = 0
    /\ pc' = "except"
    /\ UNCHANGED << adapterVars, switchVars, op, attempt, response, sleeps, onlyGeneric,
                    outcome, error, result >>

\* every caller swallowing the exception into the default payload
RaiseFromRetry_SwallowAll(msg) ==
    /\ pc' = "done"
    /\ outcome' = "returned"
    /\ result' = DefaultClosingComment
    /\ error' = ""

\* an exception leaves _execute_with_retry; generate_closing_comment catches
\* it and returns the default, the other callers see it
RaiseFromRetry(msg) ==
    /\ pc' = "done"
    /\ IF op.kind = "closing"
       THEN /\ outcome' = "returned"
            /\ result' = DefaultClosingComment
            /\ error' = ""
       ELSE /\ outcome' = "raised"
            /\ error' = msg
            /\ UNCHANGED result

\* a loop that retries whenever the classification allows it, the final
\* attempt included
RetryDecision_RetryOnLast(h, att, max_retries) ==
    IF h.error_type \in FatalTypes THEN "fatal"
    ELSE IF h.should_retry THEN "retry"
    ELSE IF att >= max_retries THEN "exhausted"
    ELSE "next"

\* the exhaustion test written with > instead of >=
RetryDecision_StrictExhaustion(h, att, max_retries) ==
    IF h.error_type \in FatalTypes THEN "fatal"
    ELSE IF h.should_retry /\ att < max_retries THEN "retry"
    ELSE IF att > max_retries THEN "exhausted"
    ELSE "next"

\* the branch the except block takes for a classified error:
\* "fatal" (raise ValueError), "retry" (switch, sleep, continue),
\* "exhausted" (raise the exhaustion error), or "next" (no branch: the for
\* statement takes the next attempt)
RetryDecision(h, att, max_retries) ==
    IF h.error_type \in FatalTypes THEN "fatal"
    ELSE IF h.should_retry /\ att < max_retries THEN "retry"
    ELSE IF att >= max_retries THEN "exhausted"
    ELSE "next"

\* a retry step that sleeps only when the switch found a fallback model
RetryEvents_SleepOnlyAfterSwitch(classified, sw, delay) ==
    IF sw.ok
    THEN classified \o << Event("switch", "True", sw.index), Event("sleep", "", delay) >>
    ELSE classified \o << Event("switch", "False", sw.index) >>

\* a retry step that sleeps before it switches
RetryEvents_SleepFirst(classified, sw, delay) ==
    classified \o << Event("sleep", "", delay),
                     Event("switch", IF sw.ok THEN "True" ELSE "False", sw.index) >>

\* the events of a model_unavailable retry step, in the order of the
\* statements: _switch_to_next_model, then time.sleep
RetryEvents(classified, sw, delay) ==
    classified \o << Event("switch", IF sw.ok THEN "True" ELSE "False", sw.index),
                     Event("sleep", "", delay) >>

\* a loop that starts over at attempt 1 after a successful model switch
HandleError_SwitchResetsAttempt ==
    /\ pc = "except"
    /\  LET h == HandleApiError(lastError, attempt, op.max_retries)
            decision == RetryDecision(h, attempt, op.max_retries)
            classified == << trace[Len(trace)], Event("classify", h.error_type, attempt) >>
        IN  /\ onlyGeneric' = (onlyGeneric /\ h.error_type = "api_error")
            /\ IF decision = "fatal"
               THEN /\ trace' = classified
                    /\ RaiseFromRetry(FatalMessage(h.error_type))
                    /\ logLines' = 1 + CallerLogLines(op.kind)
                    /\ UNCHANGED << switchVars, attempt, lastError, sleeps >>
               ELSE IF decision = "retry"
               THEN LET delay == GetRetryDelay(attempt, op.base_wait_time)
                    IN  /\ IF h.error_type = "model_unavailable"
                           THEN /\ switchCalls < MaxSwitchCalls
                                /\ \E okSet \in InitOutcomes(provider) :
                                     LET sw == SwitchToNextModel(provider, current_model_index,
                                                                 model_instance, okSet)
                                     IN  /\ ApplySwitch(sw)
                                         /\ trace' = RetryEvents(classified, sw, delay)
                                         /\ logLines' = 1 + SwitchLogLines(provider, sw) + 2
                           ELSE /\ UNCHANGED switchVars
                                /\ trace' = Append(classified, Event("sleep", "", delay))
                                /\ logLines' = 2
                        /\ sleeps' = sleeps + 1
                        /\ attempt' = IF h.error_type = "model_unavailable" /\ lastSwitch'
                                       THEN 1 ELSE attempt + 1
                        /\ pc' = "call"
                        /\ lastError' = NoMsg
                        /\ UNCHANGED << outcome, error, result >>
               ELSE IF decision = "exhausted"
               THEN /\ trace' = classified
                    /\ RaiseFromRetry(ExhaustedMessage)
                    /\ logLines' = 2 + CallerLogLines(op.kind)
                    /\ UNCHANGED << switchVars, attempt, lastError, sleeps >>
               ELSE \* no branch taken: the next attempt, or the statement after the loop
                    /\ trace' = classified
                    /\ IF attempt + 1 <= op.max_retries
                       THEN /\ attempt' = attempt + 1
                            /\ pc' = "call"
                            /\ lastError' = NoMsg
                            /\ logLines' = 1
                            /\ UNCHANGED << outcome, error, result >>
                       ELSE /\ RaiseFromRetry(UnexpectedMessage)
                            /\ logLines' = 1 + CallerLogLines(op.kind)
                            /\ UNCHANGED << attempt, lastError >>
                    /\ UNCHANGED << switchVars, sleeps >>
    /\ UNCHANGED << adapterVars, op, response, calls >>

\* the except block of the loop body; _handle_api_error logs one line on
\* each of its paths, the retry branch one line for the result of the switch
\* and one before the sleep, the exhaustion branch one before it raises
HandleError ==
    /\ pc = "except"
    /\  LET h == HandleApiError(lastError, attempt, op.max_retries)
            decision == RetryDecision(h, attempt, op.max_retries)
            classified == << trace[Len(trace)], Event("classify", h.error_type, attempt) >>
        IN  /\ onlyGeneric' = (onlyGeneric /\ h.error_type = "api_error")
            /\ IF decision = "fatal"
               THEN /\ trace' = classified
                    /\ RaiseFromRetry(FatalMessage(h.error_type))
                    /\ logLines' = 1 + CallerLogLines(op.kind)
                    /\ UNCHANGED << switchVars, attempt, lastError, sleeps >>
               ELSE IF decision = "retry"
               THEN LET delay == GetRetryDelay(attempt, op.base_wait_time)
                    IN  /\ IF h.error_type = "model_unavailable"
                           THEN /\ switchCalls < MaxSwitchCalls
                                /\ \E okSet \in InitOutcomes(provider) :
                                     LET sw == SwitchToNextModel(provider, current_model_index,
                                                                 model_instance, okSet)
                                     IN  /\ ApplySwitch(sw)
                                         /\ trace' = RetryEvents(classified, sw, delay)
                                         /\ logLines' = 1 + SwitchLogLines(provider, sw) + 2
                           ELSE /\ UNCHANGED switchVars
                                /\ trace' = Append(classified, Event("sleep", "", delay))
                                /\ logLines' = 2
                        /\ sleeps' = sleeps + 1
                        /\ attempt' = attempt + 1
                        /\ pc' = "call"
                        /\ lastError' = NoMsg
                        /\ UNCHANGED << outcome, error, result >>
               ELSE IF decision = "exhausted"
               THEN /\ trace' = classified
                    /\ RaiseFromRetry(ExhaustedMessage)
                    /\ logLines' = 2 + CallerLogLines(op.kind)
                    /\ UNCHANGED << switchVars, attempt, lastError, sleeps >>
               ELSE \* no branch taken: the next attempt, or the statement after the loop
                    /\ trace' = classified
                    /\ IF attempt + 1 <= op.max_retries
                       THEN /\ attempt' = attempt + 1
                            /\ pc' = "call"
                            /\ lastError' = NoMsg
                            /\ logLines' = 1
                            /\ UNCHANGED << outcome, error, result >>
                       ELSE /\ RaiseFromRetry(UnexpectedMessage)
                            /\ logLines' = 1 + CallerLogLines(op.kind)
                            /\ UNCHANGED << attempt, lastError >>
                    /\ UNCHANGED << switchVars, sleeps >>
    /\ UNCHANGED << adapterVars, op, response, calls >>

\* an operation that asks the vendor again when the reply is malformed
ProcessResponse_RetryOnMalformed ==
    /\ pc = "process"
    /\ LET r == ProcessAiResponse(response, op.kind = "analyze")
       IN  IF r.ok
           THEN /\ outcome' = "returned"
                /\ result' = r.val
                /\ error' = ""
                /\ pc' = "done"
                /\ UNCHANGED attempt
           ELSE IF attempt < op.max_retries
           THEN /\ attempt' = attempt + 1
                /\ pc' = "call"
                /\ UNCHANGED << outcome, result, error >>
           ELSE /\ outcome' = "raised"
                /\ error' = r.err
                /\ pc' = "done"
                /\ UNCHANGED << result, attempt >>
    /\ logLines' = 1
    /\ UNCHANGED << adapterVars, switchVars, op, lastError, response, trace,
                    calls, sleeps, onlyGeneric >>

\* _process_ai_response on the reply, and the caller's except clause
ProcessResponse ==
    /\ pc = "process"
    /\ LET r == ProcessAiResponse(response, op.kind = "analyze")
       IN  IF r.ok
           THEN /\ outcome' = "returned"
                /\ result' = r.val
                /\ error' = ""
           ELSE IF op.kind = "closing"
           THEN /\ outcome' = "returned"
                /\ result' = DefaultClosingComment
                /\ error' = ""
           ELSE /\ outcome' = "raised"
                /\ error' = r.err
                /\ UNCHANGED result
    \* _log_api_success on success; on failure the caller's except clause,
    \* after the error line of the extraction or of the structure check
    \* (json.loads raises without logging)
    /\ logLines' = LET r == ProcessAiResponse(response, op.kind = "analyze")
                   IN  IF r.ok THEN 1
                       ELSE (IF r.err = "JSONDecodeError" THEN 0 ELSE 1)
                            + CallerLogLines(op.kind)
    /\ pc' = "done"
    /\ UNCHANGED << adapterVars, switchVars, op, attempt, lastError, response, trace,
                    calls, sleeps, onlyGeneric >>

\* an adapter that goes back to its configured model after each operation
Finish_ResetIndex ==
    /\ pc = "done"
    /\ pc' = "idle"
    /\ op' = NoOp
    /\ attempt' = 0
    /\ lastError' = NoMsg
    /\ response' = << >>
    /\ trace' = << >>
    /\ calls' = 0
    /\ sleeps' = 0
    /\ onlyGeneric' = TRUE
    /\ outcome' = "none"
    /\ error' = ""
    /\ result' = NoValue
    /\ logLines' = 0
    /\ current_model_index' = StartIndex(provider, primary_model)
    /\ model_instance' = IF provider = "Gemini"
                         THEN AvailableModels(provider)[StartIndex(provider, primary_model) + 1]
                         ELSE "none"
    /\ UNCHANGED << adapterVars, switchCalls, lastSwitch, initFailed >>

\* the caller takes the outcome; the adapter is ready for the next operation
Finish ==
    /\ pc = "done"
    /\ pc' = "idle"
    /\ op' = NoOp
    /\ attempt' = 0
    /\ lastError' = NoMsg
    /\ response' = << >>
    /\ trace' = << >>
    /\ calls' = 0
    /\ sleeps' = 0
    /\ onlyGeneric' = TRUE
    /\ outcome' = "none"
    /\ error' = ""
    /\ result' = NoValue
    /\ logLines' = 0
    /\ UNCHANGED << adapterVars, switchVars >>

\* the adapter under its two operations
Next ==
    \/ SwitchDirect
    \/ StartOperation
    \/ CallReturns
    \/ CallRaises
    \/ HandleError
    \/ ProcessResponse
    \/ Finish

Spec == Init /\ [][Next]_vars

\* the retry engine under direct calls with any max_retries and base_wait_time,
\* on an adapter configured with the first model of its list; no action of it
\* reads the prompt store
InitEngine ==
    /\ Init
    /\ prompts = [t \in PromptTypes |-> "ok"]
    /\ primary_model = AvailableModels(provider)[1]

NextEngine ==
    \/ SwitchDirect
    \/ StartExecute
    \/ CallReturns
    \/ CallRaises
    \/ HandleError
    \/ Finish

SpecEngine == InitEngine /\ [][NextEngine]_vars

(***************************************************************************)
(* The pure functions on their own: the argument is drawn at the start and *)
(* the function is applied to it.                                          *)
(***************************************************************************)
\* an adapter that takes no step
IdleAdapter ==
    /\ provider = "Claude"
    /\ primary_model = ClaudeModels[1]
    /\ prompts = [t \in PromptTypes |-> "ok"]
    /\ current_model_index = 0
    /\ model_instance = "none"
    /\ pc = "idle"
    /\ op = NoOp
    /\ attempt = 0
    /\ lastError = NoMsg
    /\ response = << >>
    /\ trace = << >>
    /\ calls = 0
    /\ sleeps = 0
    /\ onlyGeneric = TRUE
    /\ outcome = "none"
    /\ error = ""
    /\ result = NoValue
    /\ switchCalls = 0
    /\ lastSwitch = FALSE
    /\ initFailed = FALSE
    /\ logLines = 0
    /\ threads = [t \in Threads |-> IdleThread]

fnFrame == << provider, primary_model, prompts, current_model_index, model_instance, pc, op,
              attempt, lastError, response, trace, calls, sleeps, onlyGeneric,
              outcome, error, result, switchCalls, lastSwitch, initFailed, logLines, threads,
              fnInput >>

\* texts over the two braces and a non-brace character
RECURSIVE TextsOfLen(_)
TextsOfLen(n) ==
    IF n = 0 THEN { << >> }
    ELSE { Append(t, c) : t \in TextsOfLen(n - 1), c \in {LBrace, RBrace, Prose} }

BraceTexts == UNION { TextsOfLen(n) : n \in 0..MaxTextLen }

InitExtract ==
    /\ IdleAdapter
    /\ fnInput \in BraceTexts
    /\ fnOutput = Pending

\* _extract_json_from_response(fnInput)
ApplyExtract ==
    /\ fnOutput = Pending
    /\ LET ex == ExtractJsonFromResponse(fnInput)
       IN  fnOutput' = Returned(ex.found, ex.text)
    /\ UNCHANGED fnFrame

NextExtract == ApplyExtract

SpecExtract == InitExtract /\ [][NextExtract]_vars

\* items of a category list, as parsed values
ItemKinds == {"full", "no_title", "no_description", "no_status", "null_title", "bad_asset"}

ItemFields(kind) ==
    LET full == [k \in RequiredFields |-> JScalar("str", "text")]
    IN  CASE kind = "full"           -> full
          [] kind = "no_title"       -> [k \in RequiredFields \ {"title"} |-> JScalar("str", "text")]
          [] kind = "no_description" -> [k \in RequiredFields \ {"description"} |-> JScalar("str", "text")]
          [] kind = "no_status"      -> [k \in RequiredFields \ {"status"} |-> JScalar("str", "text")]
          [] kind = "null_title"     -> DictPut(full, "title", JScalar("null", ""))
          [] kind = "bad_asset"      -> DictPut(full, "asset_id", JArr(<< >>))

ItemValue(kind) == JObj(ItemFields(kind))

\* sequences of (category, item kind) of length at most n
RECURSIVE Placements(_)
Placements(n) ==
    IF n = 0 THEN { << >> }
    ELSE Placements(n - 1)
         \cup { Append(ps, << c, k >>) : ps \in { q \in Placements(n - 1) : Len(q) = n - 1 },
                                        c \in CategorySet, k \in ItemKinds }

\* the items placed in category c, in order
RECURSIVE ItemsOf(_, _)
ItemsOf(ps, c) ==
    IF ps = << >> THEN << >>
    ELSE (IF Head(ps)[1] = c THEN << ItemValue(Head(ps)[2]) >> ELSE << >>) \o ItemsOf(Tail(ps), c)

\* the object whose present categories are those of ps and of `empty`
TriageValue(ps, empty) ==
    JObj([c \in empty \cup { ps[i][1] : i \in 1..Len(ps) } |-> JArr(ItemsOf(ps, c))])

\* lists present and empty besides those that hold the items: none, one, all
EmptyLists == { {}, {"work_orders"}, CategorySet }

TriageData == { TriageValue(ps, empty) : ps \in Placements(MaxItems), empty \in EmptyLists }

InitValidate ==
    /\ IdleAdapter
    /\ fnInput \in TriageData
    /\ fnOutput = Pending

\* validate_output(fnInput, 'work_triaging', test_id)
ApplyValidate ==
    /\ fnOutput = Pending
    /\ fnOutput' = Returned(validate_output(fnInput, "work_triaging"), << >>)
    /\ UNCHANGED fnFrame

NextValidate == ApplyValidate

SpecValidate == InitValidate /\ [][NextValidate]_vars

(***************************************************************************)
(* validate_output on any data and any output_type, with the exceptions    *)
(* of the model constructors made explicit.                                *)
(***************************************************************************)
OutputTypes == {"work_triaging", "closing_comment", "unknown_type"}

\* the exception Model(**data) raises, or "" when it constructs the model:
\* TypeError when data is not a mapping, ValidationError from pydantic
ConstructorRaises(data, output_type) ==
    IF data.t # "obj" THEN "TypeError"
    ELSE IF output_type = "work_triaging" /\ ~ ValidWorkItemTriagingOutput(data) THEN "ValidationError"
    ELSE IF output_type = "closing_comment" /\ ~ ValidClosingCommentOutput(data) THEN "ValidationError"
    ELSE ""

\* an except clause that names ValidationError only
CaughtByExcept_ValidationOnly(exc) == exc = "ValidationError"

\* `except Exception` of the two validators
CaughtByExcept(exc) == exc \in {"TypeError", "ValidationError"}

Raised == [state |-> "raised", ok |-> FALSE, text |-> << >>]

\* the call validate_output(data, output_type, test_id) as its caller sees it
ValidateOutputCall(data, output_type) ==
    LET exc == IF output_type \in {"work_triaging", "closing_comment"}
               THEN ConstructorRaises(data, output_type)
               ELSE ""
    IN  IF exc # "" /\ ~ CaughtByExcept(exc)
        THEN Raised
        ELSE Returned(validate_output(data, output_type), << >>)

ClosingData ==
    { JObj(f) : f \in { DictPut(EmptyDict, "closing_comment", c) : c \in {JScalar("str", "text"), JScalar("null", "")} }
                  \cup { DictPut(DictPut(EmptyDict, "closing_comment", JScalar("str", "text")),
                                 "actual_downtime_hours", h) :
                           h \in {JScalar("num", ""), JScalar("null", ""), JScalar("str", "text")} }
                  \cup { EmptyDict } }

\* values json.loads can give that are not objects
NonDictData == { JArr(<< >>), JScalar("null", ""), JScalar("str", "text") }

AnyData ==
    { TriageValue(ps, empty) : ps \in Placements(1), empty \in {{}, {"work_orders"}} }
    \cup ClosingData \cup NonDictData

InitValidateAny ==
    /\ IdleAdapter
    /\ fnInput \in [data : AnyData, output_type : OutputTypes]
    /\ fnOutput = Pending

\* validate_output(fnInput.data, fnInput.output_type, test_id)
ApplyValidateAny ==
    /\ fnOutput = Pending
    /\ fnOutput' = ValidateOutputCall(fnInput.data, fnInput.output_type)
    /\ UNCHANGED fnFrame

NextValidateAny == ApplyValidateAny

SpecValidateAny == InitValidateAny /\ [][NextValidateAny]_vars

(***************************************************************************)
(* create_ai_provider: the factory and SimpleConfig.get_api_config.        *)
(***************************************************************************)
ProviderNames == {"claude", "Claude", "GEMINI", "gemini", "openai", ""}

\* provider_name.lower()
LowerName(n) ==
    CASE n = "Claude" -> "claude"
      [] n = "GEMINI" -> "gemini"
      [] OTHER        -> n

\* values of the API-key environment variable; "" also stands for unset
ApiKeys == {"", "   ", "key-123", " key-123\n", "key 123", "your_gemini_api_key_here"}

\* a strip that leaves the key as it is
Strip_Identity(k) == k

\* str.strip()
Strip(k) ==
    CASE k = "   "          -> ""
      [] k = " key-123\n"   -> "key-123"
      [] OTHER              -> k

\* .replace('\n', '').replace(' ', '')
RemoveBlanks(k) ==
    CASE k = "key 123"      -> "key123"
      [] k = " key-123\n"   -> "key-123"
      [] k = "   "          -> ""
      [] OTHER              -> k

\* get_api_config: the configuration, or the ValueError it raises
GetApiConfig(provider_name, claude_key, gemini_key) ==
    IF LowerName(provider_name) = "claude"
    THEN LET api_key == IF Strip(claude_key) # "" THEN RemoveBlanks(Strip(claude_key)) ELSE ""
         IN  IF api_key = ""
             THEN [err |-> "ValueError: CLAUDE_API_KEY not found in environment variables",
                   api_key |-> "", provider_class |-> ""]
             ELSE [err |-> "", api_key |-> api_key, provider_class |-> "ClaudeProvider"]
    ELSE IF LowerName(provider_name) = "gemini"
    THEN LET api_key == Strip(gemini_key)
         IN  IF api_key = "" \/ api_key = "your_gemini_api_key_here"
             THEN [err |-> "ValueError: GEMINI_API_KEY not found or not configured in environment variables",
                   api_key |-> "", provider_class |-> ""]
             ELSE [err |-> "", api_key |-> api_key, provider_class |-> "GeminiProvider"]
    ELSE [err |-> "ValueError: Unsupported provider: {provider_name}",
          api_key |-> "", provider_class |-> ""]

\* no adapter has been built
NoAdapter ==
    /\ provider = "none"
    /\ primary_model = "none"
    /\ prompts = [t \in PromptTypes |-> "ok"]
    /\ current_model_index = 0
    /\ model_instance = "none"
    /\ pc = "idle"
    /\ op = NoOp
    /\ attempt = 0
    /\ lastError = NoMsg
    /\ response = << >>
    /\ trace = << >>
    /\ calls = 0
    /\ sleeps = 0
    /\ onlyGeneric = TRUE
    /\ outcome = "none"
    /\ error = ""
    /\ result = NoValue
    /\ switchCalls = 0
    /\ lastSwitch = FALSE
    /\ initFailed = FALSE
    /\ logLines = 0
    /\ threads = [t \in Threads |-> IdleThread]

FactoryInputs ==
    [provider_name : ProviderNames, claude_key : ApiKeys, gemini_key : ApiKeys,
     model : ConfigModels("Claude") \cup ConfigModels("Gemini"), client_ok : BOOLEAN]

InitFactory ==
    /\ NoAdapter
    /\ fnInput \in FactoryInputs
    /\ fnOutput = Pending

\* create_ai_provider(fnInput.provider_name, fnInput.model): get_api_config,
\* then the constructor of the adapter class, whose client or model
\* initialization may fail
CreateAiProvider ==
    /\ fnOutput = Pending
    /\ LET cfg == GetApiConfig(fnInput.provider_name, fnInput.claude_key, fnInput.gemini_key)
           p == IF cfg.provider_class = "ClaudeProvider" THEN "Claude" ELSE "Gemini"
       IN  IF cfg.err # ""
           THEN /\ fnOutput' = Raised
                /\ error' = cfg.err
                /\ UNCHANGED << provider, primary_model, current_model_index, model_instance >>
           ELSE IF ~ fnInput.client_ok
           THEN /\ fnOutput' = Raised
                /\ error' = IF p = "Claude" THEN "RuntimeError: Failed to initialize Claude client"
                                            ELSE "Exception"
                /\ UNCHANGED << provider, primary_model, current_model_index, model_instance >>
           ELSE /\ fnOutput' = Returned(TRUE, << >>)
                /\ provider' = p
                /\ primary_model' = fnInput.model
                /\ current_model_index' = StartIndex(p, fnInput.model)
                /\ model_instance' = IF p = "Gemini"
                                     THEN AvailableModels(p)[StartIndex(p, fnInput.model) + 1]
                                     ELSE "none"
                /\ UNCHANGED error
    /\ UNCHANGED << prompts, pc, op, attempt, lastError, response, trace, calls, sleeps,
                    onlyGeneric, outcome, result, switchCalls, lastSwitch, initFailed, logLines,
                    threads, fnInput >>

NextFactory == CreateAiProvider

SpecFactory == InitFactory /\ [][NextFactory]_vars

(***************************************************************************)
(* _handle_api_error on its own.                                           *)
(***************************************************************************)
ClassifyInputs ==
    { in \in [m : Messages, attempt : 1..MaxRetriesBound, max_retries : 1..MaxRetriesBound] :
        in.attempt <= in.max_retries }

InitClassify ==
    /\ IdleAdapter
    /\ fnInput \in ClassifyInputs
    /\ fnOutput = Pending

\* _handle_api_error(fnInput.m, fnInput.attempt, fnInput.max_retries, ...)
ApplyClassify ==
    /\ fnOutput = Pending
    /\ LET h == HandleApiError(fnInput.m, fnInput.attempt, fnInput.max_retries)
       IN  fnOutput' = [state |-> "returned", should_retry |-> h.should_retry,
                        error_type |-> h.error_type]
    /\ UNCHANGED fnFrame

NextClassify == ApplyClassify

SpecClassify == InitClassify /\ [][NextClassify]_vars

(***************************************************************************)
(* GeminiProvider._switch_to_next_model on its own: each call records the  *)
(* index it started from, the initialization outcomes it met and what it   *)
(* returned.                                                               *)
(***************************************************************************)
InitSwitch ==
    /\ Init
    /\ provider = "Gemini"
    /\ prompts = [t \in PromptTypes |-> "ok"]

GeminiSwitchCall ==
    /\ pc = "idle"
    /\ switchCalls < MaxSwitchCalls
    /\ \E okSet \in InitOutcomes(provider) :
          LET sw == SwitchToNextModel(provider, current_model_index, model_instance, okSet)
          IN  /\ ApplySwitch(sw)
              /\ fnInput' = [idx |-> current_model_index, okSet |-> okSet]
              /\ fnOutput' = [state |-> "returned", ok |-> sw.ok, tried |-> sw.tried]
    /\ UNCHANGED << provider, primary_model, prompts, pc, op, attempt, lastError, response, trace,
                    calls, sleeps, onlyGeneric, outcome, error, result, logLines, threads >>

NextSwitch == GeminiSwitchCall

SpecSwitch == InitSwitch /\ [][NextSwitch]_vars

(***************************************************************************)
(* Two threads share one adapter and call _switch_to_next_model.  Nothing  *)
(* is locked, so the steps of the two calls interleave between any two     *)
(* accesses of self.current_model_index: the test of the loop, the         *)
(* assignment, and (Gemini) the read inside _initialize_model.             *)
(***************************************************************************)
\* a loop that runs one position past the end of the list
LoopRange_OneMore(p) == 0..Len(AvailableModels(p))

\* for i in range(len(self.available_models))
LoopRange(p) == 0..(Len(AvailableModels(p)) - 1)

ThreadFrame == << provider, primary_model, prompts, pc, op, attempt, lastError, response, trace,
                  calls, sleeps, onlyGeneric, outcome, error, result, logLines, fnInput,
                  fnOutput >>

\* thread t enters _switch_to_next_model
ThreadCall(t) ==
    /\ threads[t].pc = "idle"
    /\ switchCalls < MaxSwitchCalls
    /\ switchCalls' = switchCalls + 1
    /\ threads' = [threads EXCEPT ![t] = [pc |-> "test", i |-> 0, ret |-> "none"]]
    /\ UNCHANGED << ThreadFrame, current_model_index, model_instance, lastSwitch, initFailed >>

\* the head of the loop and the test i > self.current_model_index; after the
\* last position the call returns False
ThreadTest(t) ==
    /\ threads[t].pc = "test"
    /\ IF threads[t].i \notin LoopRange(provider)
       THEN /\ threads' = [threads EXCEPT ![t] = [@ EXCEPT !.pc = "idle", !.ret = "False"]]
            /\ lastSwitch' = FALSE
       ELSE /\ IF threads[t].i > current_model_index
               THEN threads' = [threads EXCEPT ![t] = [@ EXCEPT !.pc = "assign"]]
               ELSE threads' = [threads EXCEPT ![t] = [@ EXCEPT !.i = @ + 1]]
            /\ UNCHANGED lastSwitch
    /\ UNCHANGED << ThreadFrame, current_model_index, model_instance, switchCalls, initFailed >>

\* self.current_model_index = i; Claude returns True, Gemini goes on to
\* _initialize_model
ThreadAssign(t) ==
    /\ threads[t].pc = "assign"
    /\ current_model_index' = threads[t].i
    /\ IF provider = "Claude"
       THEN /\ threads' = [threads EXCEPT ![t] = [@ EXCEPT !.pc = "idle", !.ret = "True"]]
            /\ lastSwitch' = TRUE
       ELSE /\ threads' = [threads EXCEPT ![t] = [@ EXCEPT !.pc = "init"]]
            /\ UNCHANGED lastSwitch
    /\ UNCHANGED << ThreadFrame, model_instance, switchCalls, initFailed >>

\* Gemini: _initialize_model reads self.current_model_index again and binds
\* the client to that model, or raises and the loop continues
ThreadInit(t) ==
    /\ threads[t].pc = "init"
    /\ \E ok \in BOOLEAN :
          IF ok
          THEN /\ model_instance' = AvailableModels(provider)[current_model_index + 1]
               /\ threads' = [threads EXCEPT ![t] = [@ EXCEPT !.pc = "idle", !.ret = "True"]]
               /\ lastSwitch' = TRUE
               /\ UNCHANGED initFailed
          ELSE /\ initFailed' = TRUE
               /\ threads' = [threads EXCEPT ![t] = [@ EXCEPT !.pc = "test", !.i = @ + 1]]
               /\ UNCHANGED << model_instance, lastSwitch >>
    /\ UNCHANGED << ThreadFrame, current_model_index, switchCalls >>

InitThreads ==
    /\ Init
    /\ prompts = [t \in PromptTypes |-> "ok"]

NextThreads ==
    \E t \in Threads :
        \/ ThreadCall(t)
        \/ ThreadTest(t)
        \/ ThreadAssign(t)
        \/ ThreadInit(t)

SpecThreads == InitThreads /\ [][NextThreads]_vars

(***************************************************************************)
(* Properties.                                                             *)
(***************************************************************************)
Min(a, b) == IF a <= b THEN a ELSE b
LastEvent == trace[Len(trace)]
ContainsTerm(m, term) == AnyTermIn({term}, LowerMsg(m))
ListLen == Len(AvailableModels(provider))

\* C1: an execution of _execute_with_retry in which the callable was invoked
\* and every invocation failed with an unclassified (api_error) exception
\* ends after exactly max_retries invocations with the exhaustion error.
C1_ExactlyMaxRetriesCalls ==
    /\ (op.kind = "execute" /\ onlyGeneric) => calls <= op.max_retries
    /\ (pc = "done" /\ op.kind = "execute" /\ outcome = "raised" /\ onlyGeneric /\ calls >= 1)
          => (calls = op.max_retries /\ error = ExhaustedMessage)

C1_Witness ==
    /\ pc = "done" /\ op.kind = "execute" /\ onlyGeneric
    /\ op.max_retries = DefaultMaxRetries /\ calls = DefaultMaxRetries
    /\ error = ExhaustedMessage

\* C2 as stated: every message containing 'unauthorized', whatever else it
\* contains, is classified authentication and the execution raises at once,
\* without a sleep and without another invocation.
C2_UnauthorizedAlwaysFatal ==
    [][(pc = "except" /\ ContainsTerm(lastError, "unauthorized"))
          => /\ trace'[2] = Event("classify", "authentication", attempt)
             /\ pc' = "done"
             /\ error' = FatalMessage("authentication")
             /\ sleeps' = sleeps /\ calls' = calls]_vars

\* C2 amended: every message containing 'unauthorized' and none of the
\* rate-limit terms (rate_limit, quota, billing, payment) is classified
\* authentication and the execution raises at once, without a sleep and
\* without another invocation.
C2_UnauthorizedFatalUnlessRateLimit ==
    [][(pc = "except" /\ ContainsTerm(lastError, "unauthorized")
          /\ ~ AnyTermIn({"rate_limit", "quota", "billing", "payment"}, LowerMsg(lastError)))
          => /\ trace'[2] = Event("classify", "authentication", attempt)
             /\ pc' = "done"
             /\ outcome' = "raised"
             /\ error' = FatalMessage("authentication")
             /\ sleeps' = sleeps /\ calls' = calls]_vars

C2_Witness ==
    /\ pc = "done" /\ op.kind = "execute" /\ outcome = "raised"
    /\ ContainsTerm(lastError, "unauthorized") /\ ContainsTerm(lastError, "safety")
    /\ error = FatalMessage("authentication")
    /\ sleeps = 0 /\ calls = 1

\* C3: a failure whose message contains 'rate_limit', on attempt a below
\* max_retries, is followed by a sleep of exactly base_wait_time * 2^(a-1)
\* seconds and then by attempt a+1 of the callable.
C3_RateLimitBackoff ==
    [][(pc = "except" /\ ContainsTerm(lastError, "rate_limit") /\ attempt < op.max_retries)
          => /\ pc' = "call"
             /\ attempt' = attempt + 1
             /\ sleeps' = sleeps + 1
             /\ trace'[Len(trace')] = Event("sleep", "", op.base_wait_time * Pow2(attempt - 1))]_vars

C3_Witness ==
    /\ pc = "call" /\ attempt = 4 /\ op.base_wait_time = 2
    /\ trace[2] = Event("classify", "rate_limit", 3)
    /\ LastEvent = Event("sleep", "", 8)

\* C4: on a list of length L and from starting index s, the first L-1-s calls
\* of _switch_to_next_model return True and every later call returns False;
\* each successful call moves the index forward by exactly one, so the index
\* never wraps and never revisits a model (Gemini: while no client
\* initialization has failed).
C4_SwitchForwardThenFalse ==
    ~ initFailed =>
        LET s == StartIndex(provider, primary_model)
            remaining == ListLen - 1 - s
        IN  /\ current_model_index = s + Min(switchCalls, remaining)
            /\ switchCalls >= 1 => (lastSwitch = (switchCalls <= remaining))

C4_Witness ==
    /\ provider = "Gemini" /\ ~ initFailed
    /\ StartIndex(provider, primary_model) = 0
    /\ switchCalls = 3 /\ lastSwitch = FALSE
    /\ current_model_index = ListLen - 1
    /\ model_instance = GeminiModels[3]

(***************************************************************************)
(* Reading a reply text: the span from its first to its last brace, the    *)
(* brace depth, and the object the span parses to.                         *)
(***************************************************************************)
BracePositions(text) == { i \in 1..Len(text) : text[i] \in {LBrace, RBrace} }
FirstBrace(text) == CHOOSE i \in BracePositions(text) : \A j \in BracePositions(text) : i <= j
LastBrace(text) == CHOOSE i \in BracePositions(text) : \A j \in BracePositions(text) : j <= i
JsonSpan(text) == SubSeq(text, FirstBrace(text), LastBrace(text))

\* number of braces opened and not yet closed after the first j tokens
DepthAfter(text, j) ==
    Cardinality({ i \in 1..j : text[i] = LBrace }) - Cardinality({ i \in 1..j : text[i] = RBrace })

\* a single object with at most one level of nested braces, between brace-free text
IsOneLevelObject(text) ==
    /\ BracePositions(text) # {}
    /\ text[FirstBrace(text)] = LBrace
    /\ text[LastBrace(text)] = RBrace
    /\ \A j \in FirstBrace(text)..(LastBrace(text) - 1) : DepthAfter(text, j) \in {1, 2}
    /\ DepthAfter(text, LastBrace(text)) = 0

\* prose, then one JSON object of at most one nesting level that parses and
\* passes the structure check, then prose
HoldsValidJson(text) ==
    /\ IsOneLevelObject(text)
    /\ \A i \in 1..Len(text) : (i < FirstBrace(text) \/ i > LastBrace(text)) => text[i] = Prose
    /\ JsonLoads(JsonSpan(text)).ok
    /\ ValidateJsonStructure(JsonLoads(JsonSpan(text)).val)

ModelXYZNotFound == {"Model XYZ", "not found"}

\* the running operation ended in the retry engine / received a reply
ReplyReceived == calls >= 1 /\ LastEvent.e = "call"
EndedInRetry == calls >= 1 /\ LastEvent.e = "classify"

\* the scenario: analyze_work_intent, first call fails as model_unavailable,
\* second call returns a text holding valid JSON
FallbackScenario ==
    /\ pc = "done" /\ op.kind = "analyze" /\ calls = 2
    /\ trace[2] = Event("classify", "model_unavailable", 1)
    /\ ReplyReceived
    /\ HoldsValidJson(response)

FallbackOutcome ==
    /\ outcome = "returned"
    /\ result = JsonLoads(JsonSpan(response)).val
    /\ current_model_index = trace[1].n + 1
    /\ trace[3] = Event("switch", "True", trace[1].n + 1)
    /\ current_model_index + 1 <= ListLen
    /\ LastEvent = Event("call", AvailableModels(provider)[current_model_index + 1], current_model_index)

C6_ClosingNeverRaises ==
    (pc = "done" /\ op.kind = "closing") => outcome = "returned"

C8_InvalidClosingDowngraded ==
    (pc = "done" /\ op.kind = "closing" /\ ReplyReceived
       /\ ExtractJsonFromResponse(response).found
       /\ JsonLoads(ExtractJsonFromResponse(response).text).ok
       /\ ~ validate_closing_comment_output(JsonLoads(ExtractJsonFromResponse(response).text).val))
      => result = DefaultClosingComment

\* C8 amended: a reply with no JSON object or with unparsable JSON is
\* downgraded to the default payload; a reply whose JSON object parses is
\* returned as parsed, without schema validation, also when it does not
\* satisfy the closing-comment schema.
C8_ClosingReturnsParsedOrDefault ==
    (pc = "done" /\ op.kind = "closing" /\ ReplyReceived) =>
        LET ex == ExtractJsonFromResponse(response)
            parsed == JsonLoads(ex.text)
        IN  /\ outcome = "returned"
            /\ result = IF ex.found /\ parsed.ok THEN parsed.val ELSE DefaultClosingComment

C8_Witness ==
    /\ pc = "done" /\ op.kind = "closing" /\ ReplyReceived
    /\ outcome = "returned"
    /\ result # DefaultClosingComment
    /\ result = JsonLoads(ExtractJsonFromResponse(response).text).val
    /\ ~ validate_closing_comment_output(result)

\* C9: on a text that is brace-free text, one object with at most one level
\* of nested braces, brace-free text, _extract_json_from_response returns
\* exactly the object; on a text without braces it raises (finds nothing).
C9_ExtractOneLevelObject ==
    fnOutput.state = "returned" =>
        /\ IsOneLevelObject(fnInput)
              => (fnOutput.ok /\ fnOutput.text = JsonSpan(fnInput))
        /\ BracePositions(fnInput) = {} => ~ fnOutput.ok

C9_Witness ==
    /\ fnOutput.state = "returned" /\ fnOutput.ok
    /\ IsOneLevelObject(fnInput)
    /\ \E j \in 1..Len(fnInput) : DepthAfter(fnInput, j) = 2
    /\ FirstBrace(fnInput) > 1 /\ LastBrace(fnInput) < Len(fnInput)
    /\ fnOutput.text = JsonSpan(fnInput)

\* the items of the present category lists of a classification object
AllItems(data) ==
    UNION { { data.fields[c].items[i] : i \in 1..Len(data.fields[c].items) } :
            c \in (DOMAIN data.fields) \cap CategorySet }

CarriesRequired(item) == \A k \in RequiredFields : HasKey(item, k)

StructuralMismatch(data, output_type) ==
    \/ output_type \notin {"work_triaging", "closing_comment"}
    \/ data.t # "obj"
    \/ /\ output_type = "work_triaging"
       /\ \E c \in (DOMAIN data.fields) \cap CategorySet :
             \/ data.fields[c].t # "arr"
             \/ \E i \in 1..Len(data.fields[c].items) :
                   \/ ~ CarriesRequired(data.fields[c].items[i])
                   \/ \E k \in RequiredFields : data.fields[c].items[i].fields[k].t # "str"
                   \/ \E k \in OptionalFields(c) \cap DOMAIN data.fields[c].items[i].fields :
                         data.fields[c].items[i].fields[k].t \notin {"str", "null"}
    \/ /\ output_type = "closing_comment"
       /\ \/ "closing_comment" \notin DOMAIN data.fields
          \/ data.fields["closing_comment"].t # "str"
          \/ /\ "actual_downtime_hours" \in DOMAIN data.fields
             /\ data.fields["actual_downtime_hours"].t \notin {"num", "null"}

\* C11: validate_output never raises: for every data value and every output
\* type, the unknown one included, it returns a boolean, and the boolean is
\* False on every structural mismatch.
C11_ValidateNeverRaises ==
    fnOutput.state # "pending" =>
        /\ fnOutput.state = "returned"
        /\ fnOutput.ok \in BOOLEAN
        /\ StructuralMismatch(fnInput.data, fnInput.output_type) => ~ fnOutput.ok

C11_Witness ==
    /\ fnOutput.state = "returned" /\ ~ fnOutput.ok
    /\ fnInput.data.t = "arr"
    /\ fnInput.output_type = "closing_comment"

\* the category lists of a classification result that hold an item
NonEmptyCategories(data) ==
    { c \in (DOMAIN data.fields) \cap CategorySet :
        data.fields[c].t = "arr" /\ Len(data.fields[c].items) > 0 }

\* C12 as stated: every result analyze_work_intent returns has at most one
\* non-empty category list.
C12_AtMostOneCategory ==
    (pc = "done" /\ op.kind = "analyze" /\ outcome = "returned")
        => Cardinality(NonEmptyCategories(result)) <= 1

\* C13: over any sequence of operations on one provider instance,
\* current_model_index never decreases and stays within
\* 0..len(available_models)-1, and it is not reset when an operation ends or
\* the next one starts.
C13_IndexMonotoneInRange ==
    [][ /\ current_model_index \in 0..(ListLen - 1)
        /\ current_model_index' \in 0..(ListLen - 1)
        /\ current_model_index' >= current_model_index
        /\ (pc = "done" \/ pc' = "done" \/ (pc = "idle" /\ pc' # "idle"))
              => current_model_index' = current_model_index ]_vars

\* a later operation calls the vendor with the fallback an earlier one left
C13_Witness ==
    /\ pc = "done" /\ op.kind = "closing" /\ calls = 1
    /\ primary_model = AvailableModels(provider)[1]
    /\ switchCalls = 2 /\ current_model_index = 2
    /\ trace[1] = Event("call", AvailableModels(provider)[3], 2)

\* the key the named provider reads is missing or blank
KeyMissingOrBlank(in) ==
    \/ LowerName(in.provider_name) = "claude" /\ in.claude_key \in {"", "   "}
    \/ LowerName(in.provider_name) = "gemini" /\ in.gemini_key \in {"", "   "}

\* C14: create_ai_provider raises ValueError when the provider name is
\* neither 'claude' nor 'gemini' in any letter case, or when that provider's
\* API key is missing or blank; no adapter is built, no vendor call is made,
\* and nothing is tried again after the failure.
C14_FactoryFailsAtConstruction ==
    [][ /\ fnOutput = Pending
        /\ (LowerName(fnInput.provider_name) \notin {"claude", "gemini"} \/ KeyMissingOrBlank(fnInput))
              => /\ fnOutput' = Raised
                 /\ error' \in { "ValueError: Unsupported provider: {provider_name}",
                                 "ValueError: CLAUDE_API_KEY not found in environment variables",
                                 "ValueError: GEMINI_API_KEY not found or not configured in environment variables" }
                 /\ provider' = "none"
                 /\ calls' = 0 ]_vars

C14_Witness ==
    /\ fnOutput = Raised
    /\ fnInput.provider_name = "Claude" /\ fnInput.claude_key = "   " /\ fnInput.gemini_key = "key-123"
    /\ fnInput.client_ok
    /\ error = "ValueError: CLAUDE_API_KEY not found in environment variables"
    /\ provider = "none" /\ calls = 0

\* C15: as soon as an invocation of the callable succeeds,
\* _execute_with_retry returns its text: the step that receives the text
\* ends the execution as returned, and the execution then makes no further
\* invocation, sleep or model switch.
C15_SuccessReturnsAtOnce ==
    [][ /\ (op.kind = "execute" /\ pc = "call" /\ pc' # "except")
              => /\ pc' = "done" /\ outcome' = "returned"
                 /\ response' \in CallableTexts("execute")
                 /\ calls' = calls + 1
                 /\ sleeps' = sleeps
                 /\ UNCHANGED switchVars
        /\ (op.kind = "execute" /\ pc = "done" /\ outcome = "returned")
              => /\ pc' = "idle"
                 /\ calls' = 0 /\ sleeps' = 0
                 /\ UNCHANGED switchVars ]_vars

\* success on the second attempt, with attempts remaining
C15_Witness ==
    /\ pc = "done" /\ op.kind = "execute" /\ outcome = "returned"
    /\ op.max_retries = MaxRetriesBound /\ attempt = 2
    /\ calls = 2 /\ sleeps = 1
    /\ response = << LBrace, Prose, RBrace >>
    /\ LastEvent.e = "call"

\* C16: whenever a failure is classified authentication, content_policy or
\* token_limit, on any attempt, _execute_with_retry raises at once with the
\* message of the category: no sleep, no model switch, no further
\* invocation of the callable.
C16_FatalRaisesAtOnce ==
    [][ /\ (op.kind = "execute" /\ pc = "except"
              /\ trace'[2].cat \in {"authentication", "content_policy", "token_limit"})
              => /\ trace'[2] = Event("classify", trace'[2].cat, attempt)
                 /\ pc' = "done" /\ outcome' = "raised"
                 /\ error' = (CASE trace'[2].cat = "authentication"
                                     -> "Invalid or expired {provider_name} API key"
                                [] trace'[2].cat = "content_policy"
                                     -> "Prompt violates {provider_name}'s content policy"
                                [] trace'[2].cat = "token_limit"
                                     -> "Prompt too long - reduce input text length")
                 /\ sleeps' = sleeps /\ calls' = calls /\ attempt' = attempt
                 /\ UNCHANGED switchVars
        /\ (op.kind = "execute" /\ pc = "done" /\ outcome = "raised")
              => (pc' = "idle" /\ calls' = 0 /\ sleeps' = 0 /\ UNCHANGED switchVars) ]_vars

\* a token_limit failure on the last attempt, after three retried ones
C16_Witness ==
    /\ pc = "done" /\ op.kind = "execute" /\ outcome = "raised"
    /\ op.max_retries = MaxRetriesBound /\ attempt = MaxRetriesBound
    /\ calls = MaxRetriesBound /\ sleeps = MaxRetriesBound - 1
    /\ LastEvent = Event("classify", "token_limit", MaxRetriesBound)
    /\ error = "Prompt too long - reduce input text length"

\* some term of T is a substring of the lower-cased message
HasAny(m, T) == \E w \in m : \E t \in T : Occurs(t, Lower(w))

\* the earliest category, in the fixed order, whose full condition holds
EarliestCategory(m) ==
    IF HasAny(m, {"rate_limit", "quota", "billing", "payment"}) THEN "rate_limit"
    ELSE IF HasAny(m, {"authentication", "api_key", "unauthorized", "forbidden"}) THEN "authentication"
    ELSE IF HasAny(m, {"content_policy", "harmful", "safety", "violation"}) THEN "content_policy"
    ELSE IF HasAny(m, {"token"}) /\ HasAny(m, {"limit", "exceeded"}) THEN "token_limit"
    ELSE IF HasAny(m, {"model"}) /\ HasAny(m, {"not found", "unavailable", "not available"})
         THEN "model_unavailable"
    ELSE IF HasAny(m, {"timeout", "deadline", "timed out"}) THEN "timeout"
    ELSE "api_error"

\* C17: _handle_api_error returns the earliest category, in the order
\* rate_limit, authentication, content_policy, token_limit,
\* model_unavailable, timeout, whose full condition holds (token_limit needs
\* 'token' with 'limit' or 'exceeded', model_unavailable needs 'model' with
\* 'not found', 'unavailable' or 'not available'); a message matching none
\* is api_error, retryable exactly when attempt < max_retries.
C17_FirstMatchClassification ==
    fnOutput.state = "returned" =>
        /\ fnOutput.error_type = EarliestCategory(fnInput.m)
        /\ fnOutput.error_type = "api_error"
              => (fnOutput.should_retry <=> fnInput.attempt < fnInput.max_retries)

\* 'token' without 'limit' or 'exceeded' falls through to timeout
C17_Witness ==
    /\ fnOutput.state = "returned"
    /\ fnInput.m = {"token", "timeout"}
    /\ fnOutput.error_type = "timeout"
    /\ fnInput.attempt = fnInput.max_retries /\ ~ fnOutput.should_retry

\* C18: on a model_unavailable failure with attempts remaining the events
\* of the retry step are, in this order: the classification, the call of
\* _switch_to_next_model, the sleep of the backoff delay, the next
\* invocation of the callable.
C18_SwitchThenSleepThenCall ==
    (Len(trace) >= 2 /\ trace[2].e = "classify" /\ trace[2].cat = "model_unavailable"
       /\ trace[2].n < op.max_retries)
      => /\ Len(trace) \in {4, 5}
         /\ trace[1].e = "call"
         /\ trace[3].e = "switch"
         /\ trace[4] = Event("sleep", "", op.base_wait_time * Pow2(trace[2].n - 1))
         /\ Len(trace) = 4 => (pc = "call" /\ attempt = trace[2].n + 1)
         /\ Len(trace) = 5 => (trace[5].e = "call" /\ trace[5].n = trace[3].n)

C18_Witness ==
    /\ op.kind = "execute" /\ op.base_wait_time = 2
    /\ Len(trace) = 5
    /\ trace[2] = Event("classify", "model_unavailable", 2)
    /\ trace[3] = Event("switch", "True", 1)
    /\ trace[4] = Event("sleep", "", 4)
    /\ trace[5].e = "call" /\ trace[5].n = 1
    /\ calls = 3

\* C19 as stated: for every max_retries, 0 included, _execute_with_retry
\* ends by returning the text, by raising a fatal category error or by
\* raising the exhaustion error; 'Unexpected error in {operation}' is never
\* raised.
C19_ThreeOutcomesOnly ==
    (pc = "done" /\ op.kind = "execute") =>
        \/ outcome = "returned"
        \/ outcome = "raised"
             /\ error \in { "Invalid or expired {provider_name} API key",
                            "Prompt violates {provider_name}'s content policy",
                            "Prompt too long - reduce input text length",
                            "Failed to complete {operation} after {max_retries} attempts" }

\* C20: within one analyze_work_intent or generate_closing_comment
\* operation, once a vendor call has returned text, a failure of JSON
\* extraction, parsing or validation causes no further vendor call, sleep
\* or model switch: the operation ends with the one reply it received.
C20_MalformedOutputNotRetried ==
    [][ /\ (op.kind \in {"analyze", "closing"} /\ pc = "process")
              => /\ pc' = "done"
                 /\ calls' = calls /\ sleeps' = sleeps /\ attempt' = attempt
                 /\ trace' = trace /\ response' = response
                 /\ UNCHANGED switchVars
        /\ (op.kind \in {"analyze", "closing"} /\ pc = "done")
              => (pc' = "idle" /\ calls' = 0 /\ sleeps' = 0 /\ UNCHANGED switchVars)
        /\ (op.kind \in {"analyze", "closing"} /\ pc = "call" /\ pc' = "process")
              => response = << >> ]_vars

\* unparsable JSON on the first attempt, with attempts remaining
C20_Witness ==
    /\ pc = "done" /\ op.kind = "analyze" /\ outcome = "raised"
    /\ error = "JSONDecodeError"
    /\ attempt = 1 /\ op.max_retries = DefaultMaxRetries
    /\ calls = 1 /\ sleeps = 0
    /\ response = << LBrace, Prose, RBrace >>

\* the list positions (0-based) the adapter has stood on since construction
PositionsVisited == StartIndex(provider, primary_model)..current_model_index

\* C21 as stated: the adapter starts on the configured model when it is a
\* known one (on the first model of the list otherwise), and every other
\* known model is reachable by successive switches: when the switches are
\* exhausted, the adapter has stood on every model of the list.
C21_ConfiguredFirstAllReachable ==
    /\ switchCalls = 0 =>
          IF primary_model \in { AvailableModels(provider)[i] : i \in 1..ListLen }
          THEN AvailableModels(provider)[current_model_index + 1] = primary_model
          ELSE current_model_index = 0
    /\ (switchCalls >= 1 /\ ~ lastSwitch /\ ~ initFailed)
          => \A i \in 0..(ListLen - 1) : i \in PositionsVisited

\* the candidates of a switch call that initialize: positions after the
\* index the call started from
UsableAfter(in) == { i \in in.okSet : i > in.idx }

\* C22: when the re-initialization for a candidate fails,
\* GeminiProvider._switch_to_next_model goes on to the next candidate: it
\* returns True exactly when some model after the current index
\* initializes, leaving the index (and the client) on the first such model;
\* it returns False when none does; it tries each remaining entry at most
\* once.
C22_GeminiSkipsFailedCandidates ==
    fnOutput.state = "returned" =>
        /\ fnOutput.ok <=> UsableAfter(fnInput) # {}
        /\ UsableAfter(fnInput) # {}
              => /\ \A i \in UsableAfter(fnInput) : current_model_index <= i
                 /\ current_model_index \in UsableAfter(fnInput)
                 /\ model_instance = GeminiModels[current_model_index + 1]
        /\ \A a, b \in 1..Len(fnOutput.tried) :
              /\ fnOutput.tried[a] \in (fnInput.idx + 1)..(Len(GeminiModels) - 1)
              /\ a < b => fnOutput.tried[a] < fnOutput.tried[b]
        /\ lastSwitch = fnOutput.ok

\* the first candidate fails to initialize and the second one succeeds
C22_Witness ==
    /\ fnOutput.state = "returned" /\ fnOutput.ok
    /\ fnInput.idx = 0 /\ fnInput.okSet = {2}
    /\ fnOutput.tried = << 1, 2 >>
    /\ current_model_index = 2 /\ model_instance = GeminiModels[3]
    /\ initFailed

\* the running operation has ended on one of its failure paths
EndedInFailure ==
    /\ pc = "done"
    /\ \/ outcome = "raised"
       \/ (op.kind = "closing" /\ result = DefaultClosingComment)

C24_BoundedCallsAndBackoff ==
    (op.kind = "execute" /\ op.max_retries >= 1) =>
        /\ calls <= op.max_retries
        /\ sleeps <= op.max_retries - 1
        /\ attempt \in 1..op.max_retries
        /\ sleeps = IF pc = "done" /\ outcome = "raised" /\ error = ExhaustedMessage
                    THEN attempt - 1
                    ELSE IF pc = "call" THEN calls ELSE calls - 1
        /\ pc = "call" => calls = attempt - 1
        /\ pc = "except" => calls = attempt
        /\ \A i \in 1..Len(trace) :
              trace[i].e = "sleep" => trace[i].n = op.base_wait_time * Pow2(sleeps - 1)

\* the third sleep of an execution, after a model switch on the third
\* failure: it lasts base_wait_time * 4 and attempt 4 follows
C24_Witness ==
    /\ op.kind = "execute" /\ op.max_retries = 4 /\ op.base_wait_time = 2
    /\ pc = "call" /\ attempt = 4 /\ calls = 3 /\ sleeps = 3
    /\ trace[2] = Event("classify", "model_unavailable", 3)
    /\ trace[3].e = "switch" /\ trace[3].cat = "True"
    /\ trace[4] = Event("sleep", "", 8)

\* C25 as stated: in every reachable state the model the next vendor call
\* uses is available_models[current_model_index] (Claude: the model name
\* sent with the request; Gemini: the model bound to model_instance), also
\* after switches whose client re-initialization failed.
C25_ModelInUseIsIndexed ==
    ModelInUse = AvailableModels(provider)[current_model_index + 1]

\* brace-free text, one object whose braces balance, brace-free text
IsSingleObject(text) ==
    /\ BracePositions(text) # {}
    /\ text[FirstBrace(text)] = LBrace
    /\ text[LastBrace(text)] = RBrace
    /\ \A j \in FirstBrace(text)..(LastBrace(text) - 1) : DepthAfter(text, j) >= 1
    /\ DepthAfter(text, LastBrace(text)) = 0

\* C26 as stated: on a reply holding one JSON object,
\* _extract_json_from_response either returns the complete outermost object
\* or raises 'No JSON object found in response'; when the object nests
\* braces two or more levels deep it raises and never returns an inner
\* sub-object.
C26_OutermostObjectOrRaises ==
    (fnOutput.state = "returned" /\ IsSingleObject(fnInput)) =>
        /\ fnOutput.ok => fnOutput.text = JsonSpan(fnInput)
        /\ (\E j \in 1..Len(fnInput) : DepthAfter(fnInput, j) >= 3) => ~ fnOutput.ok

\* C27 as stated: every value analyze_work_intent returns satisfies the
\* classification schema, whatever keys the reply contains, the key
\* 'closing_comment' included.
C27_AnalyzeResultIsClassification ==
    (pc = "done" /\ op.kind = "analyze" /\ outcome = "returned")
        => validate_output(result, "work_triaging")

\* C28: a failure on the final attempt (attempt = max_retries) leaves the
\* adapter as it is: even when it is classified model_unavailable,
\* _switch_to_next_model is not called and nothing sleeps before the
\* execution ends with an error; the index moves only in a retry step, each
\* of which sleeps, so that one execution advances current_model_index at
\* most max_retries - 1 times.
C28_FinalFailureLeavesAdapter ==
    [][ /\ (pc = "except" /\ attempt = op.max_retries)
              => /\ UNCHANGED switchVars
                 /\ sleeps' = sleeps /\ calls' = calls
                 /\ pc' = "done" /\ outcome' = "raised"
                 /\ (HandleApiError(lastError, attempt, op.max_retries).error_type \notin FatalTypes)
                       => error' = ExhaustedMessage
        /\ (pc # "idle" /\ current_model_index' # current_model_index)
              => (sleeps' = sleeps + 1 /\ sleeps' <= op.max_retries - 1) ]_vars

\* the second and final attempt failed as model_unavailable on an adapter
\* that has never switched
C28_Witness ==
    /\ pc = "done" /\ op.kind = "execute" /\ op.max_retries = 2
    /\ trace = << Event("call", ModelInUse, 0), Event("classify", "model_unavailable", 2) >>
    /\ error = ExhaustedMessage
    /\ calls = 2 /\ sleeps = 1
    /\ switchCalls = 0 /\ current_model_index = 0

\* C29: when a model_unavailable failure occurs with attempts remaining and
\* _switch_to_next_model returns False, the execution does not end: it
\* sleeps the backoff delay and invokes the callable again with the model of
\* the failed invocation (on the same index when the list was exhausted
\* already).
C29_NoFallbackStillRetries ==
    (Len(trace) >= 3 /\ trace[3].e = "switch" /\ trace[3].cat = "False") =>
        /\ trace[2].cat = "model_unavailable" /\ trace[2].n < op.max_retries
        /\ Len(trace) >= 4
        /\ trace[4] = Event("sleep", "", op.base_wait_time * Pow2(trace[2].n - 1))
        /\ Len(trace) = 4 => (pc = "call" /\ attempt = trace[2].n + 1 /\ outcome = "none")
        /\ Len(trace) = 5 =>
              /\ trace[5].e = "call"
              /\ trace[5].cat = trace[1].cat
              /\ trace[1].n = ListLen - 1 => trace[5].n = trace[1].n

\* the list was exhausted at the first failure; the callable runs again on
\* the last model
C29_Witness ==
    /\ op.kind = "execute" /\ op.max_retries = 3
    /\ Len(trace) = 5
    /\ trace[1] = Event("call", AvailableModels(provider)[ListLen], ListLen - 1)
    /\ trace[2] = Event("classify", "model_unavailable", 1)
    /\ trace[3] = Event("switch", "False", ListLen - 1)
    /\ trace[5] = trace[1]
    /\ calls = 2

\* C30 as stated: when two threads run _switch_to_next_model on the same
\* adapter, under every interleaving of their steps current_model_index
\* never decreases and stays within the bounds of available_models.
C30_IndexNeverDecreasesInBounds ==
    [][ /\ current_model_index' >= current_model_index
        /\ current_model_index' \in 0..(ListLen - 1) ]_vars

\* C30, amended: under every interleaving current_model_index stays within
\* the bounds of available_models (each thread assigns a position of the
\* list that was above the index when the thread tested it), but the index
\* can decrease: a thread that passed the test before the other thread
\* advanced the index assigns its smaller position afterwards.
C30_IndexStaysInBounds ==
    /\ current_model_index \in 0..(ListLen - 1)
    /\ \A t \in Threads :
          threads[t].pc \in {"assign", "init"} => threads[t].i \in 1..(ListLen - 1)
    /\ \A t \in Threads :
          (threads[t].pc = "idle" /\ threads[t].ret = "True")
             => threads[t].i \in 1..(ListLen - 1)

\* both calls have returned True; the index stands on position 1 although
\* one of the threads has moved it to position 2
C30_Witness ==
    \E a, b \in Threads :
        /\ a # b
        /\ provider = "Claude"
        /\ threads[a] = [pc |-> "idle", i |-> 1, ret |-> "True"]
        /\ threads[b] = [pc |-> "idle", i |-> 2, ret |-> "True"]
        /\ current_model_index = 1

====
